---- MODULE Spec2Model ----
\* A model of the hvac crate (src/src/lib.rs): the single-stage HVAC controller
\* state machine `Hvac`, its recompute step `compute` and its five public
\* operations tick / heat / cool / fan_auto / idle.
EXTENDS Integers, Sequences, FiniteSets, TLC

\* ------------------------------------------------------------------ bounds

\* Largest elapsed-seconds value passed to tick in the bounded model.
MaxTime == 2

\* Largest configured min_run / min_recover value in the bounded model.
MaxMin == 1

\* ------------------------------------------------------------- Option<T>

\* Option<T>: None is the empty tuple, Some(x) the one-element tuple.
None == << >>

Some(x) == << x >>

is_none(o) == o = None

unwrap_or(o, d) == IF o = None THEN d ELSE o[1]

\* The modulus of the unsigned word the timestamps live in. The crate uses u32
\* (2^32); TLC's integers are 32-bit signed, so the model keeps the arithmetic
\* modular with the largest power of two that a - b + U32 cannot overflow, 2^30.
U32 == 2^30

\* u32 subtraction as the release build computes it (two's complement wrap).
wrapping_sub(a, b) == (a - b + U32) % U32

\* ----------------------------------------------------------- HvacService

Heat == "Heat"

Cool == "Cool"

HvacService == {Heat, Cool}

\* The configuration values the bounded model draws from: Option<u32>.
MinSeconds == {None} \cup {Some(n) : n \in 0..MaxMin}

\* ------------------------------------------------------------------ state

VARIABLES
    hvac,          \* the Hvac struct (all 21 fields, source names)
    snapshot,      \* the HvacState returned by the last operation
    ran,           \* history: the services that have been active at some time
    fan_ran,       \* history: the fan has been on at some time
    svc_on_at,     \* history: last_update of the update in which each service last started
    svc_off_at,    \* history: last_update of the update in which each service last stopped
    fan_on_at,     \* history: last_update of the update in which the fan last went off -> on
    fan_off_at,    \* history: last_update of the update in which the fan last went on -> off
    handoff,       \* history: the last update stopped one service and started the other
    watch_fan,     \* whether fan_on_at and fan_off_at are being recorded (fixed at construction)
    panicked,      \* an operation panicked (arithmetic overflow) and did not return
    wait_args,     \* the arguments of a call of wait_seconds made on its own
    wait_result    \* the outcome of that call

vars == << hvac, snapshot, ran, fan_ran, svc_on_at, svc_off_at, fan_on_at, fan_off_at,
          handoff, watch_fan, panicked, wait_args, wait_result >>

\* impl Default for Hvac
Default ==
    [ active_service           |-> None,
      fan_active               |-> FALSE,
      last_update              |-> None,
      heat_calling             |-> FALSE,
      heat_min_run_seconds     |-> Some(60),
      heat_min_recover_seconds |-> Some(60),
      heat_wait_seconds        |-> Some(60),
      heat_last_start_seconds  |-> None,
      heat_last_stop_seconds   |-> None,
      cool_calling             |-> FALSE,
      cool_min_run_seconds     |-> Some(300),
      cool_min_recover_seconds |-> Some(300),
      cool_wait_seconds        |-> Some(60),
      cool_last_start_seconds  |-> None,
      cool_last_stop_seconds   |-> None,
      fan_auto                 |-> TRUE,
      fan_min_run_seconds      |-> Some(60),
      fan_min_recover_seconds  |-> Some(60),
      fan_wait_seconds         |-> Some(60),
      fan_last_start_seconds   |-> None,
      fan_last_stop_seconds    |-> None ]

\* wait_seconds with the comparison off by one (delta <= min_seconds).
wait_seconds_off_by_one(last_update, min_seconds, last_change) ==
    IF last_update # None
    THEN IF min_seconds # None
         THEN LET delta == wrapping_sub(last_update[1], unwrap_or(last_change, 0))
              IN  IF delta <= min_seconds[1]
                  THEN Some(min_seconds[1] - delta)
                  ELSE None
         ELSE None
    ELSE min_seconds

\* wait_seconds treating "no update yet" as "nothing to wait for".
wait_seconds_eager(last_update, min_seconds, last_change) ==
    IF last_update # None
    THEN IF min_seconds # None
         THEN LET delta == wrapping_sub(last_update[1], unwrap_or(last_change, 0))
              IN  IF delta < min_seconds[1]
                  THEN Some(min_seconds[1] - delta)
                  ELSE None
         ELSE None
    ELSE None

\* wait_seconds, line 215: last_update - last_change.unwrap_or(0) is a u32
\* subtraction. It overflows when last_update is smaller than the timestamp: a
\* build with overflow checks (the default of debug and test builds) panics
\* there, a build without them (the default of release builds) wraps around.
wait_seconds_overflows(last_update, min_seconds, last_change) ==
    /\ last_update # None
    /\ min_seconds # None
    /\ last_update[1] < unwrap_or(last_change, 0)

\* fn wait_seconds(last_update, min_seconds, last_change) -> Option<u32>
wait_seconds(last_update, min_seconds, last_change) ==
    IF last_update # None
    THEN IF min_seconds # None
         THEN LET delta == wrapping_sub(last_update[1], unwrap_or(last_change, 0))
              IN  IF delta < min_seconds[1]
                  THEN Some(min_seconds[1] - delta)
                  ELSE None
         ELSE None
    ELSE min_seconds

\* Hvac::with_heat
with_heat(self, min_run_seconds, min_recover_seconds) ==
    [self EXCEPT !.heat_min_run_seconds = min_run_seconds,
                 !.heat_min_recover_seconds = min_recover_seconds]

\* Hvac::with_cool
with_cool(self, min_run_seconds, min_recover_seconds) ==
    [self EXCEPT !.cool_min_run_seconds = min_run_seconds,
                 !.cool_min_recover_seconds = min_recover_seconds]

\* Hvac::with_fan
with_fan(self, min_run_seconds, min_recover_seconds) ==
    [self EXCEPT !.fan_min_run_seconds = min_run_seconds,
                 !.fan_min_recover_seconds = min_recover_seconds]

\* Hvac::state
state(self) == [service |-> self.active_service, fan |-> self.fan_active]

\* service_waits with the run and recovery constraints swapped.
service_waits_swapped(self) ==
    [self EXCEPT
        !.heat_wait_seconds =
            IF self.active_service = Some(Heat)
            THEN wait_seconds(self.last_update, self.heat_min_recover_seconds,
                              self.heat_last_stop_seconds)
            ELSE wait_seconds(self.last_update, self.heat_min_run_seconds,
                              self.heat_last_start_seconds),
        !.cool_wait_seconds =
            IF self.active_service = Some(Cool)
            THEN wait_seconds(self.last_update, self.cool_min_recover_seconds,
                              self.cool_last_stop_seconds)
            ELSE wait_seconds(self.last_update, self.cool_min_run_seconds,
                              self.cool_last_start_seconds)]

\* compute, lines 271-297: the heat and cool waits (run constraint against the
\* last start when the service is active, recovery against the last stop otherwise).
service_waits(self) ==
    [self EXCEPT
        !.heat_wait_seconds =
            IF self.active_service = Some(Heat)
            THEN wait_seconds(self.last_update, self.heat_min_run_seconds,
                              self.heat_last_start_seconds)
            ELSE wait_seconds(self.last_update, self.heat_min_recover_seconds,
                              self.heat_last_stop_seconds),
        !.cool_wait_seconds =
            IF self.active_service = Some(Cool)
            THEN wait_seconds(self.last_update, self.cool_min_run_seconds,
                              self.cool_last_start_seconds)
            ELSE wait_seconds(self.last_update, self.cool_min_recover_seconds,
                              self.cool_last_stop_seconds)]

\* compute, lines 299-311: the fan wait.
fan_waits(self) ==
    [self EXCEPT
        !.fan_wait_seconds =
            IF self.fan_active
            THEN wait_seconds(self.last_update, self.fan_min_run_seconds,
                              self.fan_last_start_seconds)
            ELSE wait_seconds(self.last_update, self.fan_min_recover_seconds,
                              self.fan_last_stop_seconds)]

\* stop_fan_with_service that does not look at the fan's wait.
stop_fan_with_service_at_once(self) ==
    IF self.fan_auto
    THEN [self EXCEPT !.fan_last_stop_seconds = self.last_update,
                      !.fan_active = FALSE]
    ELSE self

\* compute, lines 322-325: after a stop without handoff, the fan stops in auto mode.
stop_fan_with_service(self) ==
    IF self.fan_auto /\ is_none(self.fan_wait_seconds)
    THEN [self EXCEPT !.fan_last_stop_seconds = self.last_update,
                      !.fan_active = FALSE]
    ELSE self

\* stop_heat without the same-update start of cool.
stop_heat_no_handoff(self) ==
    IF ~self.heat_calling /\ is_none(self.heat_wait_seconds)
    THEN stop_fan_with_service([self EXCEPT !.heat_last_stop_seconds = self.last_update,
                                            !.active_service = None])
    ELSE self

\* stop_heat that does not look at the heat call.
stop_heat_while_called(self) ==
    IF is_none(self.heat_wait_seconds)
    THEN LET s1 == [self EXCEPT !.heat_last_stop_seconds = self.last_update,
                                !.active_service = None]
         IN  IF s1.cool_calling /\ is_none(s1.cool_wait_seconds)
             THEN [s1 EXCEPT !.cool_last_start_seconds = s1.last_update,
                             !.active_service = Some(Cool)]
             ELSE stop_fan_with_service(s1)
    ELSE self

\* compute, lines 315-327: the active service is heat.
stop_heat(self) ==
    IF ~self.heat_calling /\ is_none(self.heat_wait_seconds)
    THEN LET s1 == [self EXCEPT !.heat_last_stop_seconds = self.last_update,
                                !.active_service = None]
         IN  IF s1.cool_calling /\ is_none(s1.cool_wait_seconds)
             THEN [s1 EXCEPT !.cool_last_start_seconds = s1.last_update,
                             !.active_service = Some(Cool)]
             ELSE stop_fan_with_service(s1)
    ELSE self

\* stop_cool handing off to heat without looking at heat's recovery wait.
stop_cool_unchecked_handoff(self) ==
    IF ~self.cool_calling /\ is_none(self.cool_wait_seconds)
    THEN LET s1 == [self EXCEPT !.cool_last_stop_seconds = self.last_update,
                                !.active_service = None]
         IN  IF s1.heat_calling
             THEN [s1 EXCEPT !.heat_last_start_seconds = s1.last_update,
                             !.active_service = Some(Heat)]
             ELSE stop_fan_with_service(s1)
    ELSE self

\* compute, lines 328-340: the active service is cool.
stop_cool(self) ==
    IF ~self.cool_calling /\ is_none(self.cool_wait_seconds)
    THEN LET s1 == [self EXCEPT !.cool_last_stop_seconds = self.last_update,
                                !.active_service = None]
         IN  IF s1.heat_calling /\ is_none(s1.heat_wait_seconds)
             THEN [s1 EXCEPT !.heat_last_start_seconds = s1.last_update,
                             !.active_service = Some(Heat)]
             ELSE stop_fan_with_service(s1)
    ELSE self

\* start_fan_for_service recording the second after the update as the start.
start_fan_for_service_stamped_late(self) ==
    IF ~self.fan_active /\ is_none(self.fan_wait_seconds)
    THEN [self EXCEPT !.fan_last_start_seconds = Some(unwrap_or(self.last_update, 0) + 1),
                      !.fan_active = TRUE]
    ELSE self

\* start_fan_for_service that never turns the fan on.
start_fan_for_service_never(self) == self

\* compute, lines 343-346 and 352-355: the fan starts for a service when it may.
start_fan_for_service(self) ==
    IF ~self.fan_active /\ is_none(self.fan_wait_seconds)
    THEN [self EXCEPT !.fan_last_start_seconds = self.last_update,
                      !.fan_active = TRUE]
    ELSE self

\* start_heat without the fan gate.
start_heat_ungated(self) ==
    LET s1 == start_fan_for_service(self)
    IN  [s1 EXCEPT !.heat_last_start_seconds = s1.last_update,
                   !.active_service = Some(Heat)]

\* start_heat that starts heat only when the fan was on before the update.
start_heat_an_update_late(self) ==
    LET s1 == start_fan_for_service(self)
    IN  IF self.fan_active
        THEN [s1 EXCEPT !.heat_last_start_seconds = s1.last_update,
                        !.active_service = Some(Heat)]
        ELSE s1

\* compute, lines 342-350: heat starts, gated by the fan.
start_heat(self) ==
    LET s1 == start_fan_for_service(self)
    IN  IF s1.fan_active
        THEN [s1 EXCEPT !.heat_last_start_seconds = s1.last_update,
                        !.active_service = Some(Heat)]
        ELSE s1

\* start_cool without the fan gate.
start_cool_ungated(self) ==
    LET s1 == start_fan_for_service(self)
    IN  [s1 EXCEPT !.cool_last_start_seconds = s1.last_update,
                   !.active_service = Some(Cool)]

\* compute, lines 351-359: cool starts, gated by the fan.
start_cool(self) ==
    LET s1 == start_fan_for_service(self)
    IN  IF s1.fan_active
        THEN [s1 EXCEPT !.cool_last_start_seconds = s1.last_update,
                        !.active_service = Some(Cool)]
        ELSE s1

\* compute, lines 313-360: the service transition.
service_transition(self) ==
    IF self.active_service # None
    THEN IF self.active_service = Some(Heat) THEN stop_heat(self) ELSE stop_cool(self)
    ELSE IF self.heat_calling /\ is_none(self.heat_wait_seconds)
         THEN start_heat(self)
         ELSE IF self.cool_calling /\ is_none(self.cool_wait_seconds)
              THEN start_cool(self)
              ELSE self

\* fan_governance that never turns the fan off in automatic mode.
fan_governance_no_auto_off(self) ==
    IF self.fan_active /\ self.fan_auto
    THEN self
    ELSE IF ~self.fan_auto /\ is_none(self.fan_wait_seconds)
         THEN [self EXCEPT !.fan_active = TRUE]
         ELSE self

\* fan_governance that forces the fan on in manual mode only with a service active.
fan_governance_manual_needs_service(self) ==
    IF self.fan_active /\ self.fan_auto
    THEN IF is_none(self.active_service) /\ is_none(self.fan_wait_seconds)
         THEN [self EXCEPT !.fan_active = FALSE]
         ELSE self
    ELSE IF ~self.fan_auto /\ is_none(self.fan_wait_seconds) /\ self.active_service # None
         THEN [self EXCEPT !.fan_active = TRUE]
         ELSE self

\* fan_governance that forces the fan on in automatic mode too.
fan_governance_forced_in_auto(self) ==
    IF self.fan_active /\ self.fan_auto
    THEN IF is_none(self.active_service) /\ is_none(self.fan_wait_seconds)
         THEN [self EXCEPT !.fan_active = FALSE]
         ELSE self
    ELSE IF is_none(self.fan_wait_seconds)
         THEN [self EXCEPT !.fan_active = TRUE]
         ELSE self

\* compute, lines 362-368: the fan in automatic and in manual mode.
fan_governance(self) ==
    IF self.fan_active /\ self.fan_auto
    THEN IF is_none(self.active_service) /\ is_none(self.fan_wait_seconds)
         THEN [self EXCEPT !.fan_active = FALSE]
         ELSE self
    ELSE IF ~self.fan_auto /\ is_none(self.fan_wait_seconds)
         THEN [self EXCEPT !.fan_active = TRUE]
         ELSE self

\* compute, lines 271-311: one of the three calls of wait_seconds overflows.
compute_overflows(self) ==
    \/ IF self.active_service = Some(Heat)
       THEN wait_seconds_overflows(self.last_update, self.heat_min_run_seconds,
                                   self.heat_last_start_seconds)
       ELSE wait_seconds_overflows(self.last_update, self.heat_min_recover_seconds,
                                   self.heat_last_stop_seconds)
    \/ IF self.active_service = Some(Cool)
       THEN wait_seconds_overflows(self.last_update, self.cool_min_run_seconds,
                                   self.cool_last_start_seconds)
       ELSE wait_seconds_overflows(self.last_update, self.cool_min_recover_seconds,
                                   self.cool_last_stop_seconds)
    \/ IF self.fan_active
       THEN wait_seconds_overflows(self.last_update, self.fan_min_run_seconds,
                                   self.fan_last_start_seconds)
       ELSE wait_seconds_overflows(self.last_update, self.fan_min_recover_seconds,
                                   self.fan_last_stop_seconds)

\* Hvac::compute: the struct after the recompute (its result is state(self)).
compute(self) == fan_governance(service_transition(fan_waits(service_waits(self))))

\* ---------------------------------------------------------------- history

\* Service s went from not active to active (resp. active to not active) between
\* the structs old and new.
Started(old, new, s) == old.active_service # Some(s) /\ new.active_service = Some(s)

Stopped(old, new, s) == old.active_service = Some(s) /\ new.active_service # Some(s)

\* The whole of an operation: the struct becomes `new`, the snapshot is returned,
\* and the history variables note what the update did.
Update(new) ==
    /\ hvac' = new
    /\ snapshot' = state(new)
    /\ ran' = ran \cup {s \in HvacService : new.active_service = Some(s)}
    /\ fan_ran' = (fan_ran \/ new.fan_active)
    /\ svc_on_at' = [s \in HvacService |->
                        IF Started(hvac, new, s) THEN new.last_update ELSE svc_on_at[s]]
    /\ svc_off_at' = [s \in HvacService |->
                        IF Stopped(hvac, new, s) THEN new.last_update ELSE svc_off_at[s]]
    /\ fan_on_at' = IF watch_fan /\ ~hvac.fan_active /\ new.fan_active
                    THEN new.last_update ELSE fan_on_at
    /\ fan_off_at' = IF watch_fan /\ hvac.fan_active /\ ~new.fan_active
                     THEN new.last_update ELSE fan_off_at
    /\ watch_fan' = watch_fan
    /\ handoff' = \E a, b \in HvacService : a # b /\ Stopped(hvac, new, a) /\ Started(hvac, new, b)
    /\ panicked' = FALSE
    /\ UNCHANGED << wait_args, wait_result >>

\* The operation panics inside compute: it returns no snapshot and the program
\* does not go on.
Panic ==
    /\ panicked' = TRUE
    /\ UNCHANGED << hvac, snapshot, ran, fan_ran, svc_on_at, svc_off_at, fan_on_at,
                    fan_off_at, handoff, watch_fan, wait_args, wait_result >>

\* self.compute() on the struct as the operation has just assigned it: the
\* recompute runs to its end (without an overflow, or wrapping around where the
\* build does not check), or it panics at an overflow (where the build checks).
Perform(self) ==
    /\ ~panicked
    /\ \/ Update(compute(self))
       \/ compute_overflows(self) /\ Panic

\* ------------------------------------------------------------- operations

\* What each operation assigns to the struct before it calls compute.
\* tick, line 375
assign_tick(self, current_seconds) == [self EXCEPT !.last_update = Some(current_seconds)]

\* heat, lines 381-382
assign_heat(self) == [self EXCEPT !.heat_calling = TRUE, !.cool_calling = FALSE]

\* cool, lines 388-389
assign_cool(self) == [self EXCEPT !.heat_calling = FALSE, !.cool_calling = TRUE]

\* fan_auto, line 395
assign_fan_auto(self, b) == [self EXCEPT !.fan_auto = b]

\* idle, lines 401-402
assign_idle(self) == [self EXCEPT !.heat_calling = FALSE, !.cool_calling = FALSE]

\* Hvac::tick
tick(current_seconds) == Perform(assign_tick(hvac, current_seconds))

\* heat that leaves the call for cool as it is.
heat_keeps_cool_call == Perform([hvac EXCEPT !.heat_calling = TRUE])

\* Hvac::heat
heat == Perform(assign_heat(hvac))

\* Hvac::cool
cool == Perform(assign_cool(hvac))

\* Hvac::fan_auto
fan_auto(b) == Perform(assign_fan_auto(hvac, b))

\* Hvac::idle
idle == Perform(assign_idle(hvac))

\* The six constraints a controller is built with, in the order of the builder
\* calls' parameters: heat run, heat recover, cool run, cool recover, fan run,
\* fan recover.
Slots == 1..6

\* The configurations the bounded model builds: every one in which at most two of
\* the six constraints are set (each to any value of MinSeconds) and the others
\* are absent.
Configs ==
    {[k \in Slots |-> IF k = i THEN a ELSE IF k = j THEN b ELSE None] :
        << i, j, a, b >> \in Slots \X Slots \X MinSeconds \X MinSeconds}

\* No call of wait_seconds on its own has been made.
NotCalled == << "not called" >>

\* Hvac::default().with_heat(..).with_cool(..).with_fan(..)
Build(c) == with_fan(with_cool(with_heat(Default, c[1], c[2]), c[3], c[4]), c[5], c[6])

\* The state after construction with one of the configurations cs.
ConstructFrom(cs) ==
    /\ \E c \in cs : hvac = Build(c)
    /\ snapshot = state(Default)
    /\ ran = {}
    /\ fan_ran = FALSE
    /\ svc_on_at = [s \in HvacService |-> None]
    /\ svc_off_at = [s \in HvacService |-> None]
    /\ fan_on_at = None
    /\ fan_off_at = None
    /\ handoff = FALSE
    /\ panicked = FALSE
    /\ wait_args = << >>
    /\ wait_result = NotCalled

\* The state after construction.
Construct == ConstructFrom(Configs)

\* The controller alone, and the controller with the times of the fan's
\* switchings recorded beside it.
Init == Construct /\ watch_fan = FALSE

InitFan == Construct /\ watch_fan = TRUE

\* The caller supplies elapsed seconds that never decrease (the crate's contract).
Tick == \E t \in 0..MaxTime : unwrap_or(hvac.last_update, 0) <= t /\ tick(t)

CallHeat == heat

CallCool == cool

CallIdle == idle

SetFanAuto == \E b \in BOOLEAN : fan_auto(b)

Next == Tick \/ CallHeat \/ CallCool \/ CallIdle \/ SetFanAuto

Spec == Init /\ [][Next]_vars

SpecFan == InitFan /\ [][Next]_vars

\* The configurations with at most one of the six constraints set.
ConfigsOne == {c \in Configs : Cardinality({k \in Slots : c[k] # None}) <= 1}

InitAnyTick == ConstructFrom(ConfigsOne) /\ watch_fan = FALSE

\* A caller that passes any elapsed seconds to tick, also fewer than before.
TickAny == \E t \in 0..MaxTime : tick(t)

NextAnyTick == TickAny \/ CallHeat \/ CallCool \/ CallIdle \/ SetFanAuto

SpecAnyTick == InitAnyTick /\ [][NextAnyTick]_vars

\* ------------------------------------------------------- a standing call

\* The caller makes and removes calls up to elapsed time MaxTime and lets the
\* calls stand from then on, while tick keeps being invoked with strictly
\* increasing elapsed seconds. MaxLive is as far as the bounded model lets time
\* run: past every run and recovery time that can be pending once calls stand
\* (a service's own, and then the fan's).
MaxLive == MaxTime + 2 * MaxMin

\* The configurations of the standing-call model: at most one constraint set, or
\* all six set to the same value.
ConfigsLive == ConfigsOne \cup {[k \in Slots |-> v] : v \in MinSeconds \ {None}}

InitLive == ConstructFrom(ConfigsLive) /\ watch_fan = FALSE

TickUp ==
    \E t \in 0..MaxLive :
        /\ hvac.last_update # None => hvac.last_update[1] < t
        /\ tick(t)

CallsOpen == unwrap_or(hvac.last_update, 0) <= MaxTime

CallHeatOpen == CallsOpen /\ heat

CallCoolOpen == CallsOpen /\ cool

CallIdleOpen == CallsOpen /\ idle

NextLive == TickUp \/ CallHeatOpen \/ CallCoolOpen \/ CallIdleOpen \/ SetFanAuto

\* tick can be invoked with a larger elapsed value: ENABLED <<TickUp>>_vars as a
\* predicate of the state.
TickUpEnabled == ~panicked /\ (hvac.last_update = None \/ hvac.last_update[1] < MaxLive)

\* Weak fairness of TickUp, WF_vars(TickUp), written out: tick keeps being
\* invoked with a larger elapsed value for as long as there is one.
TickKeepsComing == []<>(~TickUpEnabled) \/ []<><<TickUp>>_vars

SpecLive == InitLive /\ [][NextLive]_vars /\ TickKeepsComing

\* ------------------------------------------------- wait_seconds on its own

\* The arguments the bounded model passes to wait_seconds: the times up to
\* MaxTime, and the minimum times up to one more than that (so that a minimum
\* can be below, at and above every difference of two times).
WaitTimes == {None} \cup {Some(n) : n \in 0..MaxTime}

WaitMins == {None} \cup {Some(n) : n \in 0..(MaxTime + 1)}

InitWait ==
    /\ hvac = Default
    /\ snapshot = state(Default)
    /\ ran = {}
    /\ fan_ran = FALSE
    /\ svc_on_at = [s \in HvacService |-> None]
    /\ svc_off_at = [s \in HvacService |-> None]
    /\ fan_on_at = None
    /\ fan_off_at = None
    /\ handoff = FALSE
    /\ watch_fan = FALSE
    /\ panicked = FALSE
    /\ wait_args \in WaitTimes \X WaitMins \X WaitTimes
    /\ wait_result = NotCalled

\* wait_seconds(last_update, min_seconds, last_change): it returns its value
\* (wrapping around at an overflow where the build does not check), or panics at
\* an overflow (where the build checks).
CallWait ==
    /\ wait_result = NotCalled
    /\ \/ wait_result' = << "returned", wait_seconds(wait_args[1], wait_args[2], wait_args[3]) >>
       \/ /\ wait_seconds_overflows(wait_args[1], wait_args[2], wait_args[3])
          /\ wait_result' = << "panicked" >>
    /\ UNCHANGED << hvac, snapshot, ran, fan_ran, svc_on_at, svc_off_at, fan_on_at,
                    fan_off_at, handoff, watch_fan, panicked, wait_args >>

SpecWait == InitWait /\ [][CallWait]_vars

\* A caller that never calls for a service and never touches the fan mode: only
\* tick and idle.
NextIdle == Tick \/ CallIdle

SpecIdle == Init /\ [][NextIdle]_vars

\* ---------------------------------------------- the crate's worked example

\* The crate documentation's example (lib.rs lines 36-110): its constraints and
\* the elapsed seconds it ticks to.
ExampleHeatRecover == 60

ExampleCoolRun == 300

ExampleCoolRecover == 300

ExampleHeatAt == 60

ExampleCoolAt == 300

ExampleIdleAt == 600

\* let mut hvac_controller = Hvac::default().with_heat(None, Some(60))
\*     .with_cool(Some(300), Some(300)).with_fan(None, None);
ExampleInit ==
    /\ hvac = with_fan(with_cool(with_heat(Default, None, Some(ExampleHeatRecover)),
                                 Some(ExampleCoolRun), Some(ExampleCoolRecover)),
                       None, None)
    /\ snapshot = state(Default)
    /\ ran = {}
    /\ fan_ran = FALSE
    /\ svc_on_at = [s \in HvacService |-> None]
    /\ svc_off_at = [s \in HvacService |-> None]
    /\ fan_on_at = None
    /\ fan_off_at = None
    /\ handoff = FALSE
    /\ panicked = FALSE
    /\ wait_args = << >>
    /\ wait_result = NotCalled
    /\ watch_fan = TRUE

\* The example's statements, each enabled where the example performs it. The
\* position in the example is read off the controller: last_update, the calling
\* flags and the fan mode.
NoCall == ~hvac.heat_calling /\ ~hvac.cool_calling

\* let state = hvac_controller.heat();
ExampleHeat == hvac.last_update = None /\ NoCall /\ heat

\* for i in 0..60 { let state = hvac_controller.tick(i); ... }
ExampleTickLoop ==
    /\ hvac.heat_calling
    /\ \E i \in 0..(ExampleHeatAt - 1) :
          /\ i = IF hvac.last_update = None THEN 0 ELSE hvac.last_update[1] + 1
          /\ tick(i)

\* let state = hvac_controller.tick(60);
ExampleTickHeat ==
    /\ hvac.heat_calling
    /\ hvac.last_update = Some(ExampleHeatAt - 1)
    /\ tick(ExampleHeatAt)

\* let state = hvac_controller.cool();
ExampleCool == hvac.heat_calling /\ hvac.last_update = Some(ExampleHeatAt) /\ cool

\* Between cool() and tick(300) the example lets time pass; the model also lets
\* the caller tick at any of the seconds in between.
ExampleTickWait ==
    /\ hvac.cool_calling
    /\ \E t \in (ExampleHeatAt + 1)..(ExampleCoolAt - 1) :
          /\ hvac.last_update[1] < t
          /\ tick(t)

\* let state = hvac_controller.tick(300);
ExampleTickCool ==
    /\ hvac.cool_calling
    /\ hvac.last_update[1] < ExampleCoolAt
    /\ tick(ExampleCoolAt)

\* let state = hvac_controller.idle();
ExampleIdle == hvac.cool_calling /\ hvac.last_update = Some(ExampleCoolAt) /\ idle

\* let state = hvac_controller.fan_auto(false);
ExampleFanManual ==
    NoCall /\ hvac.last_update = Some(ExampleCoolAt) /\ hvac.fan_auto /\ fan_auto(FALSE)

\* let state = hvac_controller.tick(600);
ExampleTickIdle ==
    NoCall /\ hvac.last_update = Some(ExampleCoolAt) /\ ~hvac.fan_auto /\ tick(ExampleIdleAt)

\* let state = hvac_controller.fan_auto(true);
ExampleFanAuto ==
    NoCall /\ hvac.last_update = Some(ExampleIdleAt) /\ ~hvac.fan_auto /\ fan_auto(TRUE)

ExampleNext ==
    \/ ExampleHeat
    \/ ExampleTickLoop
    \/ ExampleTickHeat
    \/ ExampleCool
    \/ ExampleTickWait
    \/ ExampleTickCool
    \/ ExampleIdle
    \/ ExampleFanManual
    \/ ExampleTickIdle
    \/ ExampleFanAuto

SpecExample == ExampleInit /\ [][ExampleNext]_vars

\* ------------------------------------------------------- claim vocabulary

\* The constraints and the calling flag of service s in the struct self.
MinRun(self, s) ==
    IF s = Heat THEN self.heat_min_run_seconds ELSE self.cool_min_run_seconds

MinRecover(self, s) ==
    IF s = Heat THEN self.heat_min_recover_seconds ELSE self.cool_min_recover_seconds

Calling(self, s) == IF s = Heat THEN self.heat_calling ELSE self.cool_calling

\* The wait of service s as the last recompute stored it.
Wait(self, s) == IF s = Heat THEN self.heat_wait_seconds ELSE self.cool_wait_seconds

\* Elapsed seconds, counted from the implicit origin 0 before the first tick.
Elapsed == unwrap_or(hvac.last_update, 0)

\* tick(t) is performed while service s is called, has never run, and no service
\* is active; s is configured with a minimum recovery time.
FirstCallTick(s, t) ==
    /\ Calling(hvac, s)
    /\ s \notin ran
    /\ hvac.active_service = None
    /\ MinRecover(hvac, s) # None
    /\ tick(t)

\* ------------------------------------------------------------------ C1

\* C1 (as stated): for a service with min_recover_seconds = R that has never run,
\* once it is called every tick(t) with t < R returns a snapshot with no active
\* service and tick(R) returns a snapshot with that service active.
C1_RecoveryThenStart ==
    [][\A s \in HvacService, t \in 0..MaxTime :
          FirstCallTick(s, t) =>
             LET R == MinRecover(hvac, s)[1]
             IN  /\ t < R => snapshot'.service = None
                 /\ t = R => snapshot'.service = Some(s)]_vars

\* C1 (amended): for a service with min_recover_seconds = R that has never run,
\* once it is called every tick(t) with t < R returns a snapshot with no active
\* service; tick(R) returns that service active exactly when the fan is already
\* on or the fan's wait computed in that update is satisfied, and returns no
\* active service when the fan is off and still recovering.
C1_RecoveryThenFanGatedStart ==
    [][\A s \in HvacService, t \in 0..MaxTime :
          FirstCallTick(s, t) =>
             LET R == MinRecover(hvac, s)[1]
                 fan_available == hvac.fan_active \/ is_none(hvac'.fan_wait_seconds)
             IN  /\ t < R => snapshot'.service = None
                 /\ t = R /\ fan_available => snapshot'.service = Some(s) /\ snapshot'.fan
                 /\ t = R /\ ~fan_available => snapshot'.service = None]_vars

\* C1 witness: a service with min_recover_seconds = 1 that never stopped is active
\* since the update at elapsed time 1, which is the current elapsed time.
C1_Witness ==
    \E s \in HvacService :
        /\ MinRecover(hvac, s) = Some(1)
        /\ Calling(hvac, s)
        /\ snapshot.service = Some(s)
        /\ svc_on_at[s] = Some(1)
        /\ svc_off_at[s] = None
        /\ hvac.last_update = Some(1)

\* ------------------------------------------------------------------ C2

C3_FanAccompaniesService == snapshot.service # None => snapshot.fan

\* C3 witness: a service became active in the last update and the fan went on
\* in that same update.
C3_Witness ==
    \E s \in HvacService :
        /\ snapshot.service = Some(s)
        /\ snapshot.fan
        /\ hvac.last_update # None
        /\ svc_on_at[s] = hvac.last_update
        /\ hvac.fan_last_start_seconds = hvac.last_update

\* ------------------------------------------------------------------ C4

\* C4: after any update in automatic mode that leaves no service active, the fan
\* is off in the snapshot if the fan's wait computed in that update is satisfied,
\* and also if the fan has no minimum run time.
C4_AutoFanShutdown ==
    (hvac.fan_auto /\ snapshot.service = None
       /\ (is_none(hvac.fan_wait_seconds) \/ hvac.fan_min_run_seconds = None))
    => ~snapshot.fan

\* C4 witness: no service has ever run, the fan has been on (so it was forced on
\* in manual mode), and back in automatic mode with its wait satisfied it is off.
C4_Witness ==
    /\ fan_ran
    /\ ran = {}
    /\ hvac.fan_auto
    /\ snapshot.service = None
    /\ is_none(hvac.fan_wait_seconds)
    /\ ~snapshot.fan
    /\ hvac.last_update # None

\* ------------------------------------------------------------------ C5

\* C5: after any update in manual mode in which the fan's wait is satisfied the
\* snapshot has the fan on; and with fan min_recover_seconds = R, manual mode and
\* a fan that never ran, tick(t) returns fan off for t < R and fan on for t = R.
C5_ManualFanForcing ==
    /\ []((~hvac.fan_auto /\ is_none(hvac.fan_wait_seconds)) => snapshot.fan)
    /\ [][\A t \in 0..MaxTime :
             (~hvac.fan_auto /\ ~fan_ran /\ hvac.fan_min_recover_seconds # None /\ tick(t)) =>
                LET R == hvac.fan_min_recover_seconds[1]
                IN  /\ t < R => ~snapshot'.fan
                    /\ t = R => snapshot'.fan]_vars

\* C5 witness: in manual mode with fan min_recover_seconds = 1 and no service
\* ever run, the fan is on at elapsed time 1 with no service active.
C5_Witness ==
    /\ ~hvac.fan_auto
    /\ hvac.fan_min_recover_seconds = Some(1)
    /\ snapshot.service = None
    /\ snapshot.fan
    /\ hvac.last_update = Some(1)
    /\ ran = {}

\* ------------------------------------------------------------------ C6

\* C6: when a service is active, the other one is called, and the waits computed
\* in the update (the active service's run wait, the called service's recovery
\* wait) are both satisfied, that single update returns the called service
\* active with the fan on.
C6_Handoff ==
    [][\A a, b \in HvacService :
          (/\ a # b
           /\ hvac.active_service = Some(a)
           /\ Calling(hvac', b)
           /\ is_none(Wait(hvac', a))
           /\ is_none(Wait(hvac', b)))
          => (snapshot'.service = Some(b) /\ snapshot'.fan /\ handoff')]_vars

\* C6 witness: the last update stopped one service and started the other.
C6_Witness ==
    /\ handoff
    /\ snapshot.service # None
    /\ snapshot.fan

\* ------------------------------------------------------------------ C7

\* C7: in the worked example (heat(None, 60), cool(300, 300), fan(None, None),
\* fan auto) heat(); tick(0..59) returns (None, false) throughout; tick(60)
\* returns (Heat, true); cool() returns (None, false), and so does every tick
\* before 300; tick(300) returns (Cool, true); idle() and then fan_auto(false)
\* both return (Cool, true); tick(600) returns (None, true); fan_auto(true)
\* returns fan = false.
C7_WorkedExample ==
    LET at(t) == hvac.last_update = Some(t)
        returned(service, fan) == snapshot = [service |-> service, fan |-> fan]
    IN  /\ (hvac.heat_calling /\ hvac.last_update # None /\ ~at(ExampleHeatAt))
              => returned(None, FALSE)
        /\ (hvac.heat_calling /\ at(ExampleHeatAt)) => returned(Some(Heat), TRUE)
        /\ (hvac.cool_calling /\ ~at(ExampleCoolAt)) => returned(None, FALSE)
        /\ (hvac.cool_calling /\ at(ExampleCoolAt)) => returned(Some(Cool), TRUE)
        /\ (NoCall /\ at(ExampleCoolAt)) => returned(Some(Cool), TRUE)
        /\ (NoCall /\ at(ExampleIdleAt) /\ ~hvac.fan_auto) => returned(None, TRUE)
        /\ (NoCall /\ at(ExampleIdleAt) /\ hvac.fan_auto) => ~snapshot.fan

\* C7 witness: the end of the example: heat started at 60, cool ran from 300 to
\* 600, and the fan went off at 600 once back in automatic mode.
C7_Witness ==
    /\ hvac.last_update = Some(ExampleIdleAt)
    /\ hvac.fan_auto
    /\ svc_on_at = [s \in HvacService |-> IF s = Heat THEN Some(ExampleHeatAt)
                                                    ELSE Some(ExampleCoolAt)]
    /\ svc_off_at[Cool] = Some(ExampleIdleAt)
    /\ fan_off_at = Some(ExampleIdleAt)
    /\ ~snapshot.fan

\* ------------------------------------------------------------------ C8

\* C8 (as stated): when the fan went from off to on in an update at elapsed time
\* s and is configured with min_run_seconds = R, the fan is on in every snapshot
\* returned at an elapsed time < s + R, however it was turned on.
C8_FanMinRun ==
    (fan_on_at # None /\ hvac.fan_min_run_seconds # None) =>
        (Elapsed < fan_on_at[1] + hvac.fan_min_run_seconds[1] => snapshot.fan)

\* ------------------------------------------------------------------ C9

\* C9 (as stated): when the fan went from on to off in an update at elapsed time
\* t and is configured with min_recover_seconds = R, the fan is off in every
\* snapshot returned at an elapsed time < t + R, however it was turned off.
C9_FanMinRecover ==
    (fan_off_at # None /\ hvac.fan_min_recover_seconds # None) =>
        (Elapsed < fan_off_at[1] + hvac.fan_min_recover_seconds[1] => ~snapshot.fan)

\* ------------------------------------------------------------------ C10

\* C10: when a service stopped in an update at elapsed time t and is configured
\* with min_recover_seconds = R, it is not active in any snapshot returned at an
\* elapsed time < t + R, whatever calls are made in between.
C10_ServiceMinRecover ==
    \A s \in HvacService :
        (svc_off_at[s] # None /\ MinRecover(hvac, s) # None) =>
            (Elapsed < svc_off_at[s][1] + MinRecover(hvac, s)[1]
                => snapshot.service # Some(s))

\* C10 witness: a service that stopped less than its recovery time ago is called
\* again while the other service is active (a handoff is being attempted), and
\* it is not active.
C10_Witness ==
    \E s \in HvacService :
        /\ svc_off_at[s] # None
        /\ MinRecover(hvac, s) = Some(1)
        /\ Elapsed < svc_off_at[s][1] + 1
        /\ Calling(hvac, s)
        /\ snapshot.service # None
        /\ snapshot.service # Some(s)

\* ------------------------------------------------------------------ C11

\* The fan's last switch from off to on was recorded by the controller as the
\* fan's start. The controller records the fan's start exactly when it turns the
\* fan on for a service that starts in the same update (lines 343-349, 352-358).
FanStartedWithService ==
    /\ fan_ran
    /\ hvac.last_update # None
    /\ fan_on_at = hvac.fan_last_start_seconds

\* C11: when the fan was started together with a service at elapsed time s and
\* is configured with min_run_seconds = R, the fan is on in every snapshot
\* returned at an elapsed time < s + R (also after the service has stopped), and
\* in automatic mode it is off in every snapshot returned at an elapsed time
\* >= s + R with no service active (so in the first such update). A start before
\* the first tick counts from the origin 0.
C11_FanRunCarriesPastService ==
    (FanStartedWithService /\ hvac.fan_min_run_seconds # None) =>
        LET R == hvac.fan_min_run_seconds[1]
            s == unwrap_or(fan_on_at, 0)
        IN  /\ Elapsed < s + R => snapshot.fan
            /\ (Elapsed >= s + R /\ hvac.fan_auto /\ snapshot.service = None)
                  => ~snapshot.fan

\* C11 witness: the fan started with a service at some elapsed time s, has a
\* minimum run time of 1, the service has stopped again at s, and in automatic
\* mode the fan is still on with no service active.
C11_Witness ==
    \E sv \in HvacService :
        /\ hvac.fan_min_run_seconds = Some(1)
        /\ fan_on_at # None
        /\ fan_on_at = hvac.fan_last_start_seconds
        /\ svc_on_at[sv] = fan_on_at
        /\ svc_off_at[sv] = fan_on_at
        /\ hvac.last_update = fan_on_at
        /\ hvac.fan_auto
        /\ snapshot.service = None
        /\ snapshot.fan

\* ------------------------------------------------------------------ C12

\* C12: from any configuration, with the fan in automatic mode, after any
\* sequence of tick and idle operations every snapshot returned is
\* (service = None, fan = false).
C12_IdleWithoutCalls == snapshot = [service |-> None, fan |-> FALSE]

\* C12 witness: after ticks up to elapsed time 1 the fan's recovery time of 1 is
\* over (in manual mode the fan would now be forced on), and the controller is
\* still idle with the fan off.
C12_Witness ==
    /\ hvac.last_update = Some(1)
    /\ hvac.fan_min_recover_seconds = Some(1)
    /\ is_none(hvac.fan_wait_seconds)
    /\ hvac.fan_auto
    /\ ~hvac.fan_active
    /\ hvac.active_service = None
    /\ snapshot = [service |-> None, fan |-> FALSE]

\* ------------------------------------------------------------------ C13

\* C13 (as stated): whatever the inputs (any elapsed value passed to tick, also
\* one smaller than a value passed before, and any boolean passed to fan_auto),
\* no operation panics: every operation completes and returns a snapshot.
C13_NoOperationFails == ~panicked

\* ------------------------------------------------------------------ C14

\* C14: in an update entered with no service active, a called service whose
\* recovery wait (as computed in the update) is satisfied becomes active only if
\* the fan was already on or the fan's wait computed in the update is satisfied,
\* and then the fan is on in the snapshot; when the fan is off and its wait is
\* not satisfied, no service is active after the update.
C14_FanGatesServiceStart ==
    [][\A s \in HvacService :
          (/\ hvac.active_service = None
           /\ Calling(hvac', s)
           /\ is_none(Wait(hvac', s)))
          => /\ hvac'.active_service = Some(s) =>
                   /\ hvac.fan_active \/ is_none(hvac'.fan_wait_seconds)
                   /\ snapshot'.fan
             /\ (~hvac.fan_active /\ ~is_none(hvac'.fan_wait_seconds)) =>
                   hvac'.active_service = None]_vars

\* C14 witness: after a tick, a service is called and its own wait is satisfied,
\* but the fan is off and still recovering, and no service is active.
C14_Witness ==
    \E s \in HvacService :
        /\ hvac.last_update # None
        /\ Calling(hvac, s)
        /\ is_none(Wait(hvac, s))
        /\ ~hvac.fan_active
        /\ ~is_none(hvac.fan_wait_seconds)
        /\ snapshot = [service |-> None, fan |-> FALSE]

\* ------------------------------------------------------------------ C15

\* C15: an update in which the active service's calling flag is true when the
\* recompute runs leaves active_service unchanged, whatever the elapsed time,
\* the fan mode and the other unit's state.
C15_NoStopWhileCalled ==
    [][\A s \in HvacService :
          (hvac.active_service = Some(s) /\ Calling(hvac', s))
          => hvac'.active_service = Some(s)]_vars

\* C15 witness: a service with a minimum run time of 1 started at elapsed time 0,
\* is still called and still active at elapsed time 2, its run wait satisfied.
C15_Witness ==
    \E s \in HvacService :
        /\ MinRun(hvac, s) = Some(1)
        /\ svc_on_at[s] = Some(0)
        /\ hvac.last_update = Some(2)
        /\ Calling(hvac, s)
        /\ is_none(Wait(hvac, s))
        /\ snapshot.service = Some(s)

\* ------------------------------------------------------------------ C16

\* The six recorded timestamps of the struct self.
Timestamps(self) ==
    { self.heat_last_start_seconds, self.heat_last_stop_seconds,
      self.cool_last_start_seconds, self.cool_last_stop_seconds,
      self.fan_last_start_seconds, self.fan_last_stop_seconds }

\* C16: when the elapsed values passed to tick never decrease, every recorded
\* start or stop timestamp (heat, cool, fan) that is present is <= last_update,
\* no subtraction in wait_seconds has overflowed, and none overflows in the next
\* operation, whichever it is.
C16_NoUnderflowUnderMonotoneTime ==
    /\ \A stamp \in Timestamps(hvac) :
          stamp # None => (hvac.last_update # None /\ stamp[1] <= hvac.last_update[1])
    /\ ~panicked
    /\ ~compute_overflows(hvac)
    /\ \A t \in 0..MaxTime :
          unwrap_or(hvac.last_update, 0) <= t =>
             ~compute_overflows([hvac EXCEPT !.last_update = Some(t)])

\* C16 witness: the fan, with a recovery time of 1, was stopped at elapsed time 1
\* after a service had run, and at elapsed time 2 its recovery wait has been
\* computed as 2 - 1 against a recovery time of 1: satisfied.
C16_Witness ==
    /\ hvac.fan_min_recover_seconds = Some(1)
    /\ hvac.fan_last_start_seconds # None
    /\ hvac.fan_last_stop_seconds = Some(1)
    /\ hvac.last_update = Some(2)
    /\ ~hvac.fan_active
    /\ is_none(hvac.fan_wait_seconds)
    /\ ran # {}

\* ------------------------------------------------------------------ C17

\* What the claim says wait_seconds returns, with delta the difference of the
\* two times.
C17_Said(last_update, min_seconds, last_change) ==
    IF last_update = None
    THEN min_seconds
    ELSE IF min_seconds = None
         THEN None
         ELSE LET delta == last_update[1] - unwrap_or(last_change, 0)
              IN  IF delta < min_seconds[1] THEN Some(min_seconds[1] - delta) ELSE None

\* C17 (as stated): wait_seconds(last_update, min_seconds, last_change) returns
\* min_seconds unchanged when last_update is absent; None when last_update is
\* present and min_seconds is absent; and when both are present, with
\* delta = last_update - (last_change or 0), Some(min_seconds - delta) if
\* delta < min_seconds and None otherwise.
C17_EligibilityFunction ==
    wait_result # NotCalled =>
        wait_result = << "returned", C17_Said(wait_args[1], wait_args[2], wait_args[3]) >>

\* ------------------------------------------------------------------ C18

\* C18: heat_calling and cool_calling are never both true, and a service becomes
\* active only in an update in which its own calling flag is true.
C18_CallsExclusive ==
    /\ [](~(hvac.heat_calling /\ hvac.cool_calling))
    /\ [][\A s \in HvacService : Started(hvac, hvac', s) => Calling(hvac', s)]_vars

\* C18 witness: heat has run, cool() has cleared the heat call, and the update
\* that stopped heat started cool, the only service called.
C18_Witness ==
    /\ handoff
    /\ Heat \in ran
    /\ snapshot.service = Some(Cool)
    /\ hvac.cool_calling
    /\ ~hvac.heat_calling

\* ------------------------------------------------------------------ C19

\* The struct b shows the same snapshot as the struct a, and the same active
\* service, fan state, calling flags and start/stop timestamps.
SameOutcome(a, b) ==
    /\ state(a) = state(b)
    /\ a.active_service = b.active_service
    /\ a.fan_active = b.fan_active
    /\ a.heat_calling = b.heat_calling
    /\ a.cool_calling = b.cool_calling
    /\ a.heat_last_start_seconds = b.heat_last_start_seconds
    /\ a.heat_last_stop_seconds = b.heat_last_stop_seconds
    /\ a.cool_last_start_seconds = b.cool_last_start_seconds
    /\ a.cool_last_stop_seconds = b.cool_last_stop_seconds
    /\ a.fan_last_start_seconds = b.fan_last_start_seconds
    /\ a.fan_last_stop_seconds = b.fan_last_stop_seconds

\* The operation that assigns with assign(_) and then recomputes, applied to the
\* controller once and then once more, ends as it stood after the first time.
SettlesAtOnce(assign(_)) ==
    LET once == compute(assign(hvac))
        twice == compute(assign(once))
    IN  SameOutcome(once, twice)

\* C19: from any reachable state, applying the same operation twice in a row at
\* the same elapsed time (heat; heat, cool; cool, idle; idle,
\* fan_auto(b); fan_auto(b), tick(t); tick(t)) makes the second application
\* return the snapshot of the first and leave active_service, the fan state, the
\* calling flags and all start/stop timestamps unchanged.
C19_SettlesInOneStep ==
    /\ SettlesAtOnce(assign_heat)
    /\ SettlesAtOnce(assign_cool)
    /\ SettlesAtOnce(assign_idle)
    /\ \A b \in BOOLEAN : SettlesAtOnce(LAMBDA self : assign_fan_auto(self, b))
    /\ \A t \in 0..MaxTime :
          unwrap_or(hvac.last_update, 0) <= t =>
             SettlesAtOnce(LAMBDA self : assign_tick(self, t))

\* C19 witness: a service is active with the fan on, and idle() applied now
\* stops both in its first application (so the first application changes the
\* controller, and the second has a changed controller to leave alone).
C19_Witness ==
    LET once == compute(assign_idle(hvac))
    IN  /\ hvac.last_update # None
        /\ snapshot.service # None
        /\ snapshot.fan
        /\ state(once) = [service |-> None, fan |-> FALSE]
        /\ once.fan_last_stop_seconds = hvac.last_update
        /\ SameOutcome(once, compute(assign_idle(once)))

\* ------------------------------------------------------------------ C20

\* C20: whenever heat (resp. cool) is called, then, tick being invoked again and
\* again with strictly increasing elapsed seconds, eventually heat (resp. cool)
\* is the active service or its call has been removed: a call that is never
\* removed is eventually served, whatever the configuration and the fan mode.
C20_StandingCallServed ==
    \A s \in HvacService :
        Calling(hvac, s) ~> (hvac.active_service = Some(s) \/ ~Calling(hvac, s))

\* C20 witness: a call left standing is served only by the tick at the last
\* elapsed time of the bounded model, after the other service had run.
C20_Witness ==
    \E s \in HvacService :
        /\ Calling(hvac, s)
        /\ snapshot.service = Some(s)
        /\ svc_on_at[s] = Some(MaxLive)
        /\ ran = HvacService

====
